---------------------------- MODULE Spec2Model ----------------------------
(***************************************************************************)
(* A model of the result envelope of stdutil/result (src/main.go,          *)
(* src/result.go) and of its generic wrapper ResultAny (src/unnamed/       *)
(* part_001).                                                              *)
(*                                                                         *)
(* Go strings are modelled as sequences of one-character strings, so that  *)
(* concatenation, prefixing, joining and splitting are computed and not    *)
(* assumed.  A Status is an enumeration value and is only ever compared,   *)
(* so it is a TLA+ string; "" is the unset Status of InitResultParam.      *)
(*                                                                         *)
(* The message log (github.com/stdutil/log) is an external collaborator:   *)
(* its operations are modelled from the way result.go uses them and from   *)
(* the interface the specification requires of it.                         *)
(***************************************************************************)
EXTENDS Integers, Sequences, FiniteSets, TLC

VARIABLES
    opts,   \* the options InitResult was called with (fixed after construction)
    r,      \* the envelope (Result)
    Data,   \* the payload of the wrapper ResultAny[T] that embeds r
    calls,  \* history: the calls made on the envelope since construction
    ret     \* the value returned by the most recent call

vars == <<opts, r, Data, calls, ret>>



---------------------------------------------------------------------------
(* Bounds of the model.                                                    *)

\* longest option list handed to InitResult
MaxOpts == 3
\* most calls made on one envelope in a behaviour of Spec
MaxCalls == 2
\* most calls made on one wrapper in a behaviour of SpecAny
MaxAnyCalls == 2
\* most calls made on one envelope in a behaviour of SpecAdd
MaxAddCalls == 3
\* most calls made on one envelope in a behaviour of SpecFocus
MaxFocusCalls == 4
\* most calls made on one envelope in a behaviour of SpecEvent
MaxEventCalls == 2
\* most calls made on one envelope in a behaviour of SpecStatus
MaxStatusCalls == 2

---------------------------------------------------------------------------
(* Texts.                                                                  *)

Empty == <<>>
T_m == <<"m">>
T_v == <<"v">>
T_e == <<"e">>
T_p == <<"p">>
T_x == <<"x">>
T_y == <<"y">>
T_alt == <<"a", "l", "t">>
T_verb == <<"%", "s">>
T_save == <<"s", "a", "v", "e">>
T_create == <<"c", "r", "e", "a", "t", "e">>
T_add == <<"a", "d", "d">>
T_caller == <<"a", "p", "i", ".", "S", "a", "v", "e">>

---------------------------------------------------------------------------
(* Status items.                                                           *)

OK == "OK"
EXCEPTION == "EXCEPTION"
VALID == "VALID"
INVALID == "INVALID"
YES == "YES"
NO == "NO"

StatusItems == {OK, EXCEPTION, VALID, INVALID, YES, NO}

\* a Status outside the enumeration (Status is an open string type)
PENDING == "PENDING"


---------------------------------------------------------------------------
(* fmt.Sprintf, for the verbs and operand kinds the envelope uses.  An     *)
(* operand is a record: a string, an error value (rendered by its Error()  *)
(* text), an int64, or the nil interface value.                            *)

StrArg(t) == [kind |-> "string", s |-> t]
ErrArg(t) == [kind |-> "error", s |-> t]
IntArg(i) == [kind |-> "int", n |-> i]
NilArg == [kind |-> "nil"]

Digit(d) == <<"0", "1", "2", "3", "4", "5", "6", "7", "8", "9">>[d + 1]

RECURSIVE Itoa(_)
\* the decimal form of an integer
Itoa(i) ==
    IF i < 0 THEN <<"-">> \o Itoa(0 - i)
    ELSE IF i < 10 THEN <<Digit(i)>>
    ELSE Itoa(i \div 10) \o <<Digit(i % 10)>>

\* the Go type name Sprintf prints for a badly matched or extra operand
TypeName(arg) ==
    CASE arg.kind = "string" -> <<"s", "t", "r", "i", "n", "g">>
      [] arg.kind = "int" -> <<"i", "n", "t", "6", "4">>
      [] arg.kind = "error" -> <<"*", "e", "r", "r", "o", "r", "s", ".",
                                 "e", "r", "r", "o", "r", "S", "t", "r", "i", "n", "g">>
      [] OTHER -> <<>>

\* the default (%v) form of an operand
ValueOf(arg) ==
    CASE arg.kind = "string" -> arg.s
      [] arg.kind = "error" -> arg.s
      [] arg.kind = "int" -> Itoa(arg.n)
      [] OTHER -> <<"<", "n", "i", "l", ">">>

\* one operand under verb c ("s", "d" or "v")
FormatArg(c, arg) ==
    IF arg.kind = "nil" /\ c # "v"
    THEN <<"%", "!", c, "(", "<", "n", "i", "l", ">", ")">>
    ELSE IF c = "v" \/ (c = "s" /\ arg.kind \in {"string", "error"})
              \/ (c = "d" /\ arg.kind = "int")
    THEN ValueOf(arg)
    ELSE <<"%", "!", c, "(">> \o TypeName(arg) \o <<"=">> \o ValueOf(arg) \o <<")">>

RECURSIVE Extra(_)
\* the operands left over when the format has no verb for them
Extra(a) ==
    IF a = <<>> THEN <<>>
    ELSE (IF Head(a).kind = "nil" THEN ValueOf(Head(a))
          ELSE TypeName(Head(a)) \o <<"=">> \o ValueOf(Head(a)))
         \o (IF Tail(a) = <<>> THEN <<>> ELSE <<",", " ">> \o Extra(Tail(a)))

RECURSIVE Sprintf(_, _)
Sprintf(f, a) ==
    IF f = <<>>
    THEN IF a = <<>> THEN <<>>
         ELSE <<"%", "!", "(", "E", "X", "T", "R", "A", " ">> \o Extra(a) \o <<")">>
    ELSE IF Head(f) # "%" THEN <<Head(f)>> \o Sprintf(Tail(f), a)
    ELSE IF Len(f) = 1 THEN <<"%", "!", "(", "N", "O", "V", "E", "R", "B", ")">>
                            \o Sprintf(<<>>, a)
    ELSE IF f[2] = "%" THEN <<"%">> \o Sprintf(Tail(Tail(f)), a)
    ELSE IF a = <<>>
    THEN <<"%", "!", f[2], "(", "M", "I", "S", "S", "I", "N", "G", ")">>
         \o Sprintf(Tail(Tail(f)), a)
    ELSE FormatArg(f[2], Head(a)) \o Sprintf(Tail(Tail(f)), Tail(a))

---------------------------------------------------------------------------
(* The message log: log.Log holds a Prefix and the notes, each a           *)
(* log.LogInfo with its severity, its message and the prefix it was added  *)
(* under.                                                                  *)

log_Info == "Info"
log_Warning == "Warning"
log_Error == "Error"
log_Success == "Success"
log_App == "App"

LogInfo(type, msg, pfx) == [Type |-> type, Message |-> msg, Prefix |-> pfx]

\* log.Log{}
NewLog == [Prefix |-> Empty, notes |-> <<>>]

\* ln.Append(n)
LogAppend(ln, n) == [ln EXCEPT !.notes = Append(@, n)]

\* ln.AddInfo(msg), ln.AddWarning(msg), ln.AddError(msg), ln.AddSuccess(msg),
\* ln.AddAppMsg(msg): a note of that severity under the log's prefix
LogAdd(ln, type, msg) == LogAppend(ln, LogInfo(type, msg, ln.Prefix))

\* ln.Notes()
Notes(ln) == ln.notes

\* the severity tag of a rendered note
Tag(type) ==
    CASE type = log_Info -> <<"I", ":">>
      [] type = log_Warning -> <<"W", ":">>
      [] type = log_Error -> <<"E", ":">>
      [] type = log_Success -> <<"S", ":">>
      [] OTHER -> <<>>

\* n.ToString(): the note's prefix, its severity and its message
NoteToString(n) == n.Prefix \o Tag(n.Type) \o n.Message

\* the line terminator of the platform
Newline(osIsWin) == IF osIsWin THEN <<"\r", "\n">> ELSE <<"\n">>

RECURSIVE LogLines(_)
LogLines(ns) ==
    IF ns = <<>> THEN <<>>
    ELSE NoteToString(Head(ns)) \o <<"\n">> \o LogLines(Tail(ns))

\* ln.ToString(): every note rendered, one per line
LogToString(ln) == LogLines(ln.notes)

---------------------------------------------------------------------------
(* The functional options of InitResult.                                   *)

\* InitResultParam{}
ZeroParam ==
    [EventVerb |-> Empty, Status |-> "", Prefix |-> Empty, Message |-> Empty,
     InitialFocusID |-> Empty, UseOperationInMsg |-> FALSE]

NilOption == [opt |-> "nil"]
WithStatus(status) == [opt |-> "WithStatus", status |-> status]
WithPrefix(pfx) == [opt |-> "WithPrefix", pfx |-> pfx]
WithMessage(msg) == [opt |-> "WithMessage", msg |-> msg]
WithFocusControl(focusId) == [opt |-> "WithFocusControl", focusId |-> focusId]
WithEventVerb(eventVerb) == [opt |-> "WithEventVerb", eventVerb |-> eventVerb]
UseOperationInMessage(on) == [opt |-> "UseOperationInMessage", on |-> on]

\* o(&irp), for a non-nil option o
ApplyOption(o, irp) ==
    CASE o.opt = "WithStatus" -> [irp EXCEPT !.Status = o.status]
      [] o.opt = "WithPrefix" -> [irp EXCEPT !.Prefix = o.pfx]
      [] o.opt = "WithMessage" -> [irp EXCEPT !.Message = o.msg]
      [] o.opt = "WithFocusControl" -> [irp EXCEPT !.InitialFocusID = o.focusId]
      [] o.opt = "WithEventVerb" -> [irp EXCEPT !.EventVerb = o.eventVerb]
      [] o.opt = "UseOperationInMessage" -> [irp EXCEPT !.UseOperationInMsg = o.on]

RECURSIVE ApplyOptions(_, _)
\* the loop over opts of InitResult: nil options are skipped, later options
\* override earlier ones
ApplyOptions(os, irp) ==
    IF os = <<>> THEN irp
    ELSE IF Head(os) = NilOption THEN ApplyOptions(Tail(os), irp)
    ELSE ApplyOptions(Tail(os), ApplyOption(Head(os), irp))

---------------------------------------------------------------------------
(* The envelope.  FocusControl is a *string: "nil", or a pointer to the    *)
(* string variable cell (the ctrl parameter of the SetFocusControl call    *)
(* that set it, or the new(string)), or a pointer to the envelope's own    *)
(* initFc field.  The caller-set fields TaskID, WorkerID, Page, PageCount, *)
(* PageSize and Tag are read and written by no function and are left out.  *)

\* NewResult with the envelope born OK instead of EXCEPTION
NewResult_bornOK(goos) ==
    [Messages |-> <<>>, Status |-> OK, Operation |-> Empty,
     FocusControl |-> "nil", cell |-> Empty, Prefix |-> Empty, ln |-> NewLog,
     eventVerb |-> Empty, osIsWin |-> (goos = "windows"),
     useOperationInMsg |-> FALSE, initFc |-> Empty]

\* Result{Status: string(EXCEPTION), ln: log.Log{}, osIsWin: ...} with
\* Messages = make([]string, 0)
NewResult(goos) ==
    [Messages |-> <<>>, Status |-> EXCEPTION, Operation |-> Empty,
     FocusControl |-> "nil", cell |-> Empty, Prefix |-> Empty, ln |-> NewLog,
     eventVerb |-> Empty, osIsWin |-> (goos = "windows"),
     useOperationInMsg |-> FALSE, initFc |-> Empty]

\* *r.FocusControl
FocusControlValue(res) == IF res.FocusControl = "initFc" THEN res.initFc ELSE res.cell

SetPrefix(res, pfx) == [res EXCEPT !.ln.Prefix = pfx, !.Prefix = pfx]

\* SetFocusControl writing ctrl through the pointer it holds instead of
\* pointing FocusControl at ctrl
SetFocusControl_inPlace(res, ctrl, appendOnly) ==
    LET r1 == IF res.FocusControl = "nil"
              THEN [res EXCEPT !.FocusControl = "cell", !.cell = Empty]
              ELSE res
    IN  IF ~appendOnly
        THEN IF r1.FocusControl = "initFc"
             THEN [r1 EXCEPT !.initFc = ctrl]
             ELSE [r1 EXCEPT !.initFc = ctrl, !.cell = ctrl]
        ELSE IF r1.FocusControl = "initFc"
        THEN [r1 EXCEPT !.initFc = r1.initFc \o <<"_">> \o ctrl]
        ELSE [r1 EXCEPT !.cell = r1.initFc \o <<"_">> \o ctrl]


SetFocusControl(res, ctrl, appendOnly) ==
    LET r1 == IF res.FocusControl = "nil"
              THEN [res EXCEPT !.FocusControl = "cell", !.cell = Empty]
              ELSE res
    IN  IF ~appendOnly
        THEN [r1 EXCEPT !.initFc = ctrl, !.FocusControl = "cell", !.cell = ctrl]
        ELSE IF r1.FocusControl = "initFc"
        THEN [r1 EXCEPT !.initFc = r1.initFc \o <<"_">> \o ctrl]
        ELSE [r1 EXCEPT !.cell = r1.initFc \o <<"_">> \o ctrl]

ResetFocusControl(res) == [res EXCEPT !.FocusControl = "initFc"]

\* r.Messages rebuilt from the notes of the log
updateMessage(res) ==
    [res EXCEPT !.Messages =
        [i \in 1..Len(Notes(res.ln)) |-> NoteToString(Notes(res.ln)[i])]]

\* the message an Add method hands to the log: the format applied to its
\* operands when there are any, behind the operation when that is switched on
formatMsg(res, fmtMsg, a, withOperation) ==
    LET msg == IF Len(a) > 0 THEN Sprintf(fmtMsg, a) ELSE fmtMsg
    IN  IF withOperation /\ res.useOperationInMsg /\ res.Operation # Empty
        THEN <<" ">> \o res.Operation \o <<":", " ">> \o msg
        ELSE msg

AddInfo(res, fmtMsg, a) ==
    updateMessage([res EXCEPT !.ln = LogAdd(@, log_Info, formatMsg(res, fmtMsg, a, TRUE))])

\* AddWarning without its r.updateMessage()
AddWarning_noUpdate(res, fmtMsg, a) ==
    [res EXCEPT !.ln = LogAdd(@, log_Warning, formatMsg(res, fmtMsg, a, TRUE))]


AddWarning(res, fmtMsg, a) ==
    updateMessage([res EXCEPT !.ln = LogAdd(@, log_Warning, formatMsg(res, fmtMsg, a, TRUE))])

AddError(res, fmtMsg, a) ==
    updateMessage([res EXCEPT !.ln = LogAdd(@, log_Error, formatMsg(res, fmtMsg, a, TRUE))])

AddErr(res, err) == AddError(res, T_verb, <<err>>)

AddSuccess(res, fmtMsg, a) ==
    updateMessage([res EXCEPT !.ln = LogAdd(@, log_Success, formatMsg(res, fmtMsg, a, TRUE))])

AddRawMsg(res, fmtMsg, a) ==
    updateMessage([res EXCEPT !.ln = LogAdd(@, log_App, formatMsg(res, fmtMsg, a, FALSE))])

AddErrWithAlt(res, err, altMsg, altMsgValues) ==
    IF err # NilArg THEN AddErr(res, err)
    ELSE IF altMsg # Empty THEN AddError(res, altMsg, altMsgValues)
    ELSE res

RECURSIVE AppendNotes(_, _)
\* for _, n := range rs.ln.Notes() { r.ln.Append(n) }
AppendNotes(res, ns) ==
    IF ns = <<>> THEN res
    ELSE AppendNotes([res EXCEPT !.ln = LogAppend(@, Head(ns))], Tail(ns))

\* the test widened to the whole success family
OkOrValid_orYes(rs) == rs.Status = OK \/ rs.Status = VALID \/ rs.Status = YES

\* rs.OK() || rs.Valid()
OkOrValid(rs) == rs.Status = OK \/ rs.Status = VALID

AddErrorWithAlt(res, rs, altMsg, altMsgValues) ==
    IF ~OkOrValid(rs) THEN updateMessage(AppendNotes(res, Notes(rs.ln)))
    ELSE IF altMsg = Empty THEN res
    ELSE updateMessage([res EXCEPT !.ln =
            LogAppend(@, LogInfo(log_Error, Sprintf(altMsg, altMsgValues), res.ln.Prefix))])

AppendErr(res, rs, err) == AddErr(AppendNotes(res, Notes(rs.ln)), err)

AppendError(res, rs, fmtMsg, a) == AddError(AppendNotes(res, Notes(rs.ln)), fmtMsg, a)

AppendInfo(res, rs, fmtMsg, a) == AddInfo(AppendNotes(res, Notes(rs.ln)), fmtMsg, a)

AppendWarning(res, rs, fmtMsg, a) == AddWarning(AppendNotes(res, Notes(rs.ln)), fmtMsg, a)

\* Stuff taking the status of the merged result with its notes
Stuff_takesStatus(res, rs) ==
    [updateMessage(AppendNotes(res, Notes(rs.ln))) EXCEPT !.Status = rs.Status]

Stuff(res, rs) == updateMessage(AppendNotes(res, Notes(rs.ln)))

RowsAffectedInfo(res, rowsaff) ==
    IF rowsaff # 0
    THEN AddInfo(res, <<"%", "d", " ", "r", "o", "w", "s", " ",
                        "a", "f", "f", "e", "c", "t", "e", "d">>, <<IntArg(rowsaff)>>)
    ELSE AddInfo(res, <<"N", "o", " ", "r", "o", "w", "s", " ",
                        "a", "f", "f", "e", "c", "t", "e", "d">>, <<>>)

Return(res, status) == [res EXCEPT !.Status = status]

\* the status predicates; the method OK is Result_OK here, OK being the
\* status item
Result_OK(res) == res.Status = OK

Error(res) == res.Status = EXCEPTION

Valid(res) == res.Status = VALID

Invalid(res) == res.Status = INVALID

Yes(res) == res.Status = YES

\* No comparing with YES instead of NO
No_asYes(res) == res.Status = YES


No(res) == res.Status = NO

---------------------------------------------------------------------------
(* Construction.                                                           *)

UpperCase == <<"A", "B", "C", "D", "E", "F", "G", "H", "I", "J", "K", "L", "M",
               "N", "O", "P", "Q", "R", "S", "T", "U", "V", "W", "X", "Y", "Z">>
LowerCase == <<"a", "b", "c", "d", "e", "f", "g", "h", "i", "j", "k", "l", "m",
               "n", "o", "p", "q", "r", "s", "t", "u", "v", "w", "x", "y", "z">>

\* strings.ToLower
ToLower(t) ==
    [i \in 1..Len(t) |->
        IF \E k \in 1..26 : UpperCase[k] = t[i]
        THEN LowerCase[CHOOSE k \in 1..26 : UpperCase[k] = t[i]]
        ELSE t[i]]

\* strings.LastIndex(nm, `.`) + 1, and 0 for the -1 of no dot
LastDot(nm) ==
    IF \E i \in 1..Len(nm) : nm[i] = "."
    THEN CHOOSE i \in 1..Len(nm) : nm[i] = "." /\ \A j \in (i + 1)..Len(nm) : nm[j] # "."
    ELSE 0

\* the caller's function name without its package path, in lower case
OperationOf(nm) == ToLower(SubSeq(nm, LastDot(nm) + 1, Len(nm)))

\* caller: what runtime.Caller(1) and runtime.FuncForPC find, ok or not;
\* goos: runtime.GOOS
InitResult(os, caller, goos) ==
    LET irp == ApplyOptions(os, ZeroParam)
        r0 == NewResult(goos)
        r1 == IF irp.Status # "" THEN [r0 EXCEPT !.Status = irp.Status] ELSE r0
        r2 == SetPrefix(r1, irp.Prefix)
        r3 == [r2 EXCEPT !.eventVerb = irp.EventVerb, !.initFc = irp.InitialFocusID]
        r4 == SetFocusControl(r3, r3.initFc, FALSE)
        r5 == IF caller.ok
              THEN [r4 EXCEPT !.Operation = OperationOf(caller.name),
                              !.eventVerb = IF r4.eventVerb = Empty
                                            THEN OperationOf(caller.name)
                                            ELSE r4.eventVerb]
              ELSE r4
        msg == IF irp.UseOperationInMsg /\ r5.Operation # Empty
               THEN <<" ">> \o r5.Operation \o <<":", " ">> \o irp.Message
               ELSE irp.Message
    IN  IF irp.Message = Empty THEN r5
        ELSE IF irp.Status \in {OK, VALID, YES} THEN AddInfo(r5, T_verb, <<StrArg(msg)>>)
        ELSE IF irp.Status \in {EXCEPTION, INVALID, NO} THEN AddError(r5, T_verb, <<StrArg(msg)>>)
        ELSE [r5 EXCEPT !.ln = LogAdd(@, log_App, msg)]

---------------------------------------------------------------------------
(* Queries.                                                                *)

RECURSIVE Lines(_, _)
\* every entry followed by the line terminator
Lines(ms, lf) == IF ms = <<>> THEN <<>> ELSE Head(ms) \o lf \o Lines(Tail(ms), lf)

MessagesToString(res) ==
    IF Len(res.Messages) = 1 THEN res.Messages[1]
    ELSE IF Len(res.Messages) > 1 THEN Lines(res.Messages, Newline(res.osIsWin))
    ELSE LogToString(res.ln)

\* strings.HasSuffix(s, suffix)
HasSuffix(s, suffix) ==
    Len(s) >= Len(suffix) /\ SubSeq(s, Len(s) - Len(suffix) + 1, Len(s)) = suffix

\* EventID without the test for a verb that ends in "e"
EventID_alwaysEd(res) ==
    IF res.eventVerb = Empty THEN <<"u", "n", "k", "n", "o", "w", "n">>
    ELSE res.eventVerb \o <<"e", "d">>


EventID(res) ==
    LET ev == res.eventVerb
    IN  IF ev = Empty THEN <<"u", "n", "k", "n", "o", "w", "n">>
        ELSE IF ~HasSuffix(ev, <<"e">>) THEN ev \o <<"e", "d">>
        ELSE ev \o <<"d">>

RECURSIVE Join(_, _)
\* strings.Join(ms, sep)
Join(ms, sep) ==
    IF ms = <<>> THEN <<>>
    ELSE IF Len(ms) = 1 THEN ms[1]
    ELSE Head(ms) \o sep \o Join(Tail(ms), sep)

RECURSIVE Split(_, _)
\* strings.Split(s, sep), for a non-empty sep
Split(s, sep) ==
    IF \E i \in 1..(Len(s) - Len(sep) + 1) : SubSeq(s, i, i + Len(sep) - 1) = sep
    THEN LET i == CHOOSE k \in 1..(Len(s) - Len(sep) + 1) :
                    /\ SubSeq(s, k, k + Len(sep) - 1) = sep
                    /\ \A j \in 1..(k - 1) : SubSeq(s, j, j + Len(sep) - 1) # sep
         IN  <<SubSeq(s, 1, i - 1)>> \o Split(SubSeq(s, i + Len(sep), Len(s)), sep)
    ELSE <<s>>

---------------------------------------------------------------------------
(* The generic wrapper ResultAny[T]: w.Result is the embedded envelope and *)
(* w.Data the payload.  A method gives the receiver after the call (recv)  *)
(* and the wrapper it returns (ret).                                       *)

\* the wrapper built without its Data field, which is then T's zero value
Rewrap_noData(w) == [Result |-> w.Result, Data |-> <<>>]

\* ResultAny[T]{Result: r.Result, Data: r.Data}
Rewrap(w) == [Result |-> w.Result, Data |-> w.Data]

\* a method of the wrapper: the envelope's method on the embedded envelope,
\* then the wrapper built anew from the receiver
Delegate(w, res) ==
    LET recv == [w EXCEPT !.Result = res]
    IN  [recv |-> recv, ret |-> Rewrap(recv)]

Any_AddInfo(w, fmtMsg, a) == Delegate(w, AddInfo(w.Result, fmtMsg, a))
Any_AddWarning(w, fmtMsg, a) == Delegate(w, AddWarning(w.Result, fmtMsg, a))
Any_AddError(w, fmtMsg, a) == Delegate(w, AddError(w.Result, fmtMsg, a))
Any_AddErr(w, err) == Delegate(w, AddErr(w.Result, err))
Any_AddSuccess(w, fmtMsg, a) == Delegate(w, AddSuccess(w.Result, fmtMsg, a))
Any_Stuff(w, rs) == Delegate(w, Stuff(w.Result, rs))
Any_AddErrWithAlt(w, err, altMsg, altMsgValues) ==
    Delegate(w, AddErrWithAlt(w.Result, err, altMsg, altMsgValues))
Any_AddErrorWithAlt(w, rs, altMsg, altMsgValues) ==
    Delegate(w, AddErrorWithAlt(w.Result, rs, altMsg, altMsgValues))
Any_Return(w, status) == Delegate(w, Return(w.Result, status))

---------------------------------------------------------------------------
(* The inputs the calls are made with.                                     *)

\* a format without operands, and a format with a verb and its operand
FmtInputs == {[fmtMsg |-> T_m, a |-> <<>>], [fmtMsg |-> T_verb, a |-> <<StrArg(T_v)>>]}
Errors == {NilArg, ErrArg(T_e)}
AltInputs == {[altMsg |-> Empty, a |-> <<>>], [altMsg |-> T_alt, a |-> <<>>]}
Rows == {0, 2}
Prefixes == {Empty, T_p}
FocusIds == {T_x, T_y}
Payloads == {<<>>, <<"d">>}
Callers == {[ok |-> FALSE, name |-> Empty], [ok |-> TRUE, name |-> T_caller]}
Platforms == {"linux", "windows"}

\* another function's result with status s and n notes (0, 1 or 2)
OtherResult(s, n) ==
    LET found == [ok |-> TRUE, name |-> T_caller]
    IN  IF n = 0 THEN InitResult(<<WithStatus(s)>>, found, "linux")
        ELSE IF n = 1 THEN InitResult(<<WithStatus(s), WithMessage(T_m)>>, found, "linux")
        ELSE AddWarning(InitResult(<<WithStatus(s), WithMessage(T_m)>>, found, "linux"),
                        T_v, <<>>)

\* the results merged by Stuff and the Append methods
Others == {OtherResult(EXCEPTION, 1), OtherResult(OK, 2)}
\* the results merged by AddErrorWithAlt: every status item, one or two notes
AltOthers == {OtherResult(s, n) : s \in StatusItems, n \in {1, 2}}

\* the options a constructor of each specification is called with
Options ==
    {NilOption, WithMessage(T_m), WithPrefix(T_p), WithFocusControl(T_x),
     WithEventVerb(T_create), UseOperationInMessage(TRUE)}
    \cup {WithStatus(s) : s \in StatusItems \cup {PENDING}}
OptionLists == UNION {[1..n -> Options] : n \in 0..MaxOpts}
MessageOptions ==
    {<<>>, <<WithMessage(T_m)>>, <<UseOperationInMessage(TRUE)>>,
     <<WithStatus(OK), WithMessage(T_m), UseOperationInMessage(TRUE)>>}
AddOptions ==
    {<<>>, <<WithStatus(OK)>>, <<WithPrefix(T_p)>>, <<UseOperationInMessage(TRUE)>>}
FocusOptions == {<<>>, <<WithFocusControl(T_x)>>, <<WithFocusControl(T_y)>>}
AnyOptions == {<<>>, <<WithStatus(OK), WithMessage(T_m)>>}
StatusOptions == {<<>>} \cup {<<WithStatus(s)>> : s \in StatusItems}
EventOptions ==
    {<<>>, <<WithEventVerb(Empty)>>, <<WithEventVerb(T_create)>>, <<WithEventVerb(T_add)>>}

---------------------------------------------------------------------------
(* The state machine.  A call is recorded in calls with the type it was    *)
(* made on and its arguments; ret is what it returned.                     *)

\* res := InitResult(os...) in a caller, on a platform, with a payload d
Construct(os, caller, goos, d) ==
    /\ opts = os
    /\ r = InitResult(os, caller, goos)
    /\ Data = d
    /\ calls = <<>>
    /\ ret = [kind |-> "Result", v |-> InitResult(os, caller, goos)]

\* a method of Result that returns *r, called on an envelope ("Result") or,
\* promoted by the embedding, on a wrapper ("ResultAny")
Do(max, on, c, res) ==
    /\ Len(calls) < max
    /\ r' = res
    /\ calls' = Append(calls, [c EXCEPT !.on = on])
    /\ ret' = [kind |-> "Result", v |-> res]
    /\ UNCHANGED <<opts, Data>>

\* a method of Result that returns nothing
DoVoid(max, on, c, res) ==
    /\ Len(calls) < max
    /\ r' = res
    /\ calls' = Append(calls, [c EXCEPT !.on = on])
    /\ ret' = [kind |-> "void"]
    /\ UNCHANGED <<opts, Data>>

\* a method of ResultAny[T]
DoAny(max, c, out) ==
    /\ Len(calls) < max
    /\ r' = out.recv.Result
    /\ Data' = out.recv.Data
    /\ calls' = Append(calls, [c EXCEPT !.on = "ResultAny"])
    /\ ret' = [kind |-> "ResultAny", v |-> out.ret]
    /\ UNCHANGED opts

\* the wrapper that embeds r
Self == [Result |-> r, Data |-> Data]

AddInfoCall(max, on) ==
    \E in \in FmtInputs :
        Do(max, on, [op |-> "AddInfo", on |-> "", fmtMsg |-> in.fmtMsg, a |-> in.a],
           AddInfo(r, in.fmtMsg, in.a))

AddWarningCall(max, on) ==
    \E in \in FmtInputs :
        Do(max, on, [op |-> "AddWarning", on |-> "", fmtMsg |-> in.fmtMsg, a |-> in.a],
           AddWarning(r, in.fmtMsg, in.a))

AddErrorCall(max, on) ==
    \E in \in FmtInputs :
        Do(max, on, [op |-> "AddError", on |-> "", fmtMsg |-> in.fmtMsg, a |-> in.a],
           AddError(r, in.fmtMsg, in.a))

AddSuccessCall(max, on) ==
    \E in \in FmtInputs :
        Do(max, on, [op |-> "AddSuccess", on |-> "", fmtMsg |-> in.fmtMsg, a |-> in.a],
           AddSuccess(r, in.fmtMsg, in.a))

AddRawMsgCall(max, on) ==
    \E in \in FmtInputs :
        Do(max, on, [op |-> "AddRawMsg", on |-> "", fmtMsg |-> in.fmtMsg, a |-> in.a],
           AddRawMsg(r, in.fmtMsg, in.a))

AddErrCall(max, on) ==
    \E err \in Errors :
        Do(max, on, [op |-> "AddErr", on |-> "", err |-> err], AddErr(r, err))

AddErrWithAltCall(max, on) ==
    \E err \in Errors, alt \in AltInputs :
        Do(max, on, [op |-> "AddErrWithAlt", on |-> "", err |-> err,
                 altMsg |-> alt.altMsg, a |-> alt.a],
           AddErrWithAlt(r, err, alt.altMsg, alt.a))

AddErrorWithAltCall(max, on) ==
    \E rs \in AltOthers, alt \in AltInputs :
        Do(max, on, [op |-> "AddErrorWithAlt", on |-> "", rs |-> rs,
                 altMsg |-> alt.altMsg, a |-> alt.a],
           AddErrorWithAlt(r, rs, alt.altMsg, alt.a))

AppendErrCall(max, on) ==
    \E rs \in Others, err \in Errors :
        Do(max, on, [op |-> "AppendErr", on |-> "", rs |-> rs, err |-> err],
           AppendErr(r, rs, err))

AppendErrorCall(max, on) ==
    \E rs \in Others, in \in FmtInputs :
        Do(max, on, [op |-> "AppendError", on |-> "", rs |-> rs,
                 fmtMsg |-> in.fmtMsg, a |-> in.a],
           AppendError(r, rs, in.fmtMsg, in.a))

AppendInfoCall(max, on) ==
    \E rs \in Others, in \in FmtInputs :
        Do(max, on, [op |-> "AppendInfo", on |-> "", rs |-> rs,
                 fmtMsg |-> in.fmtMsg, a |-> in.a],
           AppendInfo(r, rs, in.fmtMsg, in.a))

AppendWarningCall(max, on) ==
    \E rs \in Others, in \in FmtInputs :
        Do(max, on, [op |-> "AppendWarning", on |-> "", rs |-> rs,
                 fmtMsg |-> in.fmtMsg, a |-> in.a],
           AppendWarning(r, rs, in.fmtMsg, in.a))

StuffCall(max, on) ==
    \E rs \in Others :
        Do(max, on, [op |-> "Stuff", on |-> "", rs |-> rs], Stuff(r, rs))

SetPrefixCall(max, on) ==
    \E pfx \in Prefixes :
        DoVoid(max, on, [op |-> "SetPrefix", on |-> "", pfx |-> pfx], SetPrefix(r, pfx))

RowsAffectedInfoCall(max, on) ==
    \E rowsaff \in Rows :
        DoVoid(max, on, [op |-> "RowsAffectedInfo", on |-> "", rowsaff |-> rowsaff],
               RowsAffectedInfo(r, rowsaff))

SetFocusControlCall(max, on) ==
    \E ctrl \in FocusIds, appendOnly \in BOOLEAN :
        DoVoid(max, on, [op |-> "SetFocusControl", on |-> "", ctrl |-> ctrl,
                     appendOnly |-> appendOnly],
               SetFocusControl(r, ctrl, appendOnly))

ResetFocusControlCall(max, on) ==
    DoVoid(max, on, [op |-> "ResetFocusControl", on |-> ""], ResetFocusControl(r))

MessagesToStringCall(max, on) ==
    /\ Len(calls) < max
    /\ calls' = Append(calls, [op |-> "MessagesToString", on |-> on])
    /\ ret' = [kind |-> "string", v |-> MessagesToString(r)]
    /\ UNCHANGED <<opts, r, Data>>

EventIDCall(max, on) ==
    /\ Len(calls) < max
    /\ calls' = Append(calls, [op |-> "EventID", on |-> on])
    /\ ret' = [kind |-> "string", v |-> EventID(r)]
    /\ UNCHANGED <<opts, r, Data>>

ReturnCall(max, on) ==
    \E status \in StatusItems :
        Do(max, on, [op |-> "Return", on |-> "", status |-> status], Return(r, status))

\* a status predicate called: the envelope is left alone
Ask(max, on, op, answer) ==
    /\ Len(calls) < max
    /\ calls' = Append(calls, [op |-> op, on |-> on])
    /\ ret' = [kind |-> "bool", v |-> answer]
    /\ UNCHANGED <<opts, r, Data>>

OKCall(max, on) == Ask(max, on, "OK", Result_OK(r))

ErrorCall(max, on) == Ask(max, on, "Error", Error(r))

ValidCall(max, on) == Ask(max, on, "Valid", Valid(r))

InvalidCall(max, on) == Ask(max, on, "Invalid", Invalid(r))

YesCall(max, on) == Ask(max, on, "Yes", Yes(r))

NoCall(max, on) == Ask(max, on, "No", No(r))

AnyAddInfoCall(max) ==
    \E in \in FmtInputs :
        DoAny(max, [op |-> "AddInfo", on |-> "", fmtMsg |-> in.fmtMsg, a |-> in.a],
              Any_AddInfo(Self, in.fmtMsg, in.a))

AnyAddWarningCall(max) ==
    \E in \in FmtInputs :
        DoAny(max, [op |-> "AddWarning", on |-> "", fmtMsg |-> in.fmtMsg, a |-> in.a],
              Any_AddWarning(Self, in.fmtMsg, in.a))

AnyAddErrorCall(max) ==
    \E in \in FmtInputs :
        DoAny(max, [op |-> "AddError", on |-> "", fmtMsg |-> in.fmtMsg, a |-> in.a],
              Any_AddError(Self, in.fmtMsg, in.a))

AnyAddErrCall(max) ==
    \E err \in Errors :
        DoAny(max, [op |-> "AddErr", on |-> "", err |-> err], Any_AddErr(Self, err))

AnyAddSuccessCall(max) ==
    \E in \in FmtInputs :
        DoAny(max, [op |-> "AddSuccess", on |-> "", fmtMsg |-> in.fmtMsg, a |-> in.a],
              Any_AddSuccess(Self, in.fmtMsg, in.a))

AnyStuffCall(max) ==
    \E rs \in Others :
        DoAny(max, [op |-> "Stuff", on |-> "", rs |-> rs], Any_Stuff(Self, rs))

AnyAddErrWithAltCall(max) ==
    \E err \in Errors, alt \in AltInputs :
        DoAny(max, [op |-> "AddErrWithAlt", on |-> "", err |-> err,
                    altMsg |-> alt.altMsg, a |-> alt.a],
              Any_AddErrWithAlt(Self, err, alt.altMsg, alt.a))

AnyAddErrorWithAltCall(max) ==
    \E rs \in Others, alt \in AltInputs :
        DoAny(max, [op |-> "AddErrorWithAlt", on |-> "", rs |-> rs,
                    altMsg |-> alt.altMsg, a |-> alt.a],
              Any_AddErrorWithAlt(Self, rs, alt.altMsg, alt.a))

AnyReturnCall(max) ==
    \E status \in StatusItems :
        DoAny(max, [op |-> "Return", on |-> "", status |-> status],
              Any_Return(Self, status))

---------------------------------------------------------------------------
(* Specifications.                                                         *)

\* Spec: an envelope and the methods that add to, merge into and render its
\* messages
Init ==
    \E os \in MessageOptions, goos \in Platforms :
        Construct(os, [ok |-> TRUE, name |-> T_caller], goos, <<>>)

Next ==
    \/ AddInfoCall(MaxCalls, "Result")
    \/ AddWarningCall(MaxCalls, "Result")
    \/ AddErrorCall(MaxCalls, "Result")
    \/ AddSuccessCall(MaxCalls, "Result")
    \/ AddRawMsgCall(MaxCalls, "Result")
    \/ AddErrCall(MaxCalls, "Result")
    \/ AddErrWithAltCall(MaxCalls, "Result")
    \/ AddErrorWithAltCall(MaxCalls, "Result")
    \/ AppendErrCall(MaxCalls, "Result")
    \/ AppendErrorCall(MaxCalls, "Result")
    \/ AppendInfoCall(MaxCalls, "Result")
    \/ AppendWarningCall(MaxCalls, "Result")
    \/ StuffCall(MaxCalls, "Result")
    \/ SetPrefixCall(MaxCalls, "Result")
    \/ RowsAffectedInfoCall(MaxCalls, "Result")
    \/ MessagesToStringCall(MaxCalls, "Result")

Spec == Init /\ [][Next]_vars

\* SpecInit: construction under every option list, then the rendering query
InitAny ==
    \E os \in OptionLists, caller \in Callers, goos \in Platforms :
        Construct(os, caller, goos, <<>>)

NextInit == MessagesToStringCall(1, "Result")

SpecInit == InitAny /\ [][NextInit]_vars

\* SpecAdd: an envelope constructed without a message, and the four Add
\* methods of a severity
InitAdd ==
    \E os \in AddOptions, caller \in Callers :
        Construct(os, caller, "linux", <<>>)

NextAdd ==
    \/ AddInfoCall(MaxAddCalls, "Result")
    \/ AddWarningCall(MaxAddCalls, "Result")
    \/ AddErrorCall(MaxAddCalls, "Result")
    \/ AddSuccessCall(MaxAddCalls, "Result")

SpecAdd == InitAdd /\ [][NextAdd]_vars

\* SpecFocus: an envelope and its focus control
InitFocus ==
    \E os \in FocusOptions :
        Construct(os, [ok |-> TRUE, name |-> T_caller], "linux", <<>>)

NextFocus ==
    \/ SetFocusControlCall(MaxFocusCalls, "Result")
    \/ ResetFocusControlCall(MaxFocusCalls, "Result")

SpecFocus == InitFocus /\ [][NextFocus]_vars

\* SpecAny: a wrapper with a payload, the methods of the wrapper, and the
\* methods of the envelope that the wrapper does not define and Go promotes
\* from the embedded envelope
InitWrapped ==
    \E os \in AnyOptions, d \in Payloads :
        Construct(os, [ok |-> TRUE, name |-> T_caller], "linux", d)

NextAny ==
    \/ AnyAddInfoCall(MaxAnyCalls)
    \/ AnyAddWarningCall(MaxAnyCalls)
    \/ AnyAddErrorCall(MaxAnyCalls)
    \/ AnyAddErrCall(MaxAnyCalls)
    \/ AnyAddSuccessCall(MaxAnyCalls)
    \/ AnyStuffCall(MaxAnyCalls)
    \/ AnyAddErrWithAltCall(MaxAnyCalls)
    \/ AnyAddErrorWithAltCall(MaxAnyCalls)
    \/ AnyReturnCall(MaxAnyCalls)
    \/ AddRawMsgCall(MaxAnyCalls, "ResultAny")
    \/ AppendErrCall(MaxAnyCalls, "ResultAny")
    \/ AppendErrorCall(MaxAnyCalls, "ResultAny")
    \/ AppendInfoCall(MaxAnyCalls, "ResultAny")
    \/ AppendWarningCall(MaxAnyCalls, "ResultAny")
    \/ SetPrefixCall(MaxAnyCalls, "ResultAny")
    \/ RowsAffectedInfoCall(MaxAnyCalls, "ResultAny")

SpecAny == InitWrapped /\ [][NextAny]_vars

\* every method of the envelope that changes it
Mutators(max) ==
    \/ AddInfoCall(max, "Result")
    \/ AddWarningCall(max, "Result")
    \/ AddErrorCall(max, "Result")
    \/ AddSuccessCall(max, "Result")
    \/ AddRawMsgCall(max, "Result")
    \/ AddErrCall(max, "Result")
    \/ AddErrWithAltCall(max, "Result")
    \/ AddErrorWithAltCall(max, "Result")
    \/ AppendErrCall(max, "Result")
    \/ AppendErrorCall(max, "Result")
    \/ AppendInfoCall(max, "Result")
    \/ AppendWarningCall(max, "Result")
    \/ StuffCall(max, "Result")
    \/ SetPrefixCall(max, "Result")
    \/ RowsAffectedInfoCall(max, "Result")
    \/ SetFocusControlCall(max, "Result")
    \/ ResetFocusControlCall(max, "Result")
    \/ ReturnCall(max, "Result")

\* SpecEvent: an envelope constructed with and without an event verb, in a
\* caller that is and is not detected, every method that changes it, and the
\* event id query
InitEvent ==
    \E os \in EventOptions, caller \in Callers :
        Construct(os, caller, "linux", <<>>)

NextEvent ==
    \/ Mutators(MaxEventCalls)
    \/ EventIDCall(MaxEventCalls, "Result")

SpecEvent == InitEvent /\ [][NextEvent]_vars

\* SpecStatus: an envelope constructed with each status item and with none,
\* every method that changes it, and the status predicates
InitStatus ==
    \E os \in StatusOptions :
        Construct(os, [ok |-> TRUE, name |-> T_caller], "linux", <<>>)

NextStatus ==
    \/ Mutators(MaxStatusCalls)
    \/ OKCall(MaxStatusCalls, "Result")
    \/ ErrorCall(MaxStatusCalls, "Result")
    \/ ValidCall(MaxStatusCalls, "Result")
    \/ InvalidCall(MaxStatusCalls, "Result")
    \/ YesCall(MaxStatusCalls, "Result")
    \/ NoCall(MaxStatusCalls, "Result")

SpecStatus == InitStatus /\ [][NextStatus]_vars

---------------------------------------------------------------------------
(* Properties.                                                             *)

\* the parameters the options left InitResult with
Irp == ApplyOptions(opts, ZeroParam)

\* the most recent call
LastCall == calls[Len(calls)]

\* the notes ns as updateMessage must render them
Rendered(ns) == [i \in 1..Len(ns) |-> NoteToString(ns[i])]

\* the text a call's format and operands stand for
Formatted(c) == IF Len(c.a) > 0 THEN Sprintf(c.fmtMsg, c.a) ELSE c.fmtMsg

\* " <operation>: "
OperationTag == <<" ">> \o r.Operation \o <<":", " ">>

\* the severity an Add method logs at
SeverityOf(op) ==
    CASE op = "AddInfo" -> log_Info
      [] op = "AddWarning" -> log_Warning
      [] op = "AddError" -> log_Error
      [] op = "AddSuccess" -> log_Success

\* C1: in every state reached by constructing an envelope and applying its
\* mutators, Messages equals, entry by entry and in order, the rendering of
\* the notes the log holds.
C1_MessagesMirrorLog == r.Messages = Rendered(Notes(r.ln))

RECURSIVE Anchor(_, _)
\* the id of the most recent SetFocusControl call that was not append-only,
\* and the initial focus id when there was none
Anchor(cs, initial) ==
    IF cs = <<>> THEN initial
    ELSE IF cs[Len(cs)].op = "SetFocusControl" /\ ~cs[Len(cs)].appendOnly
    THEN cs[Len(cs)].ctrl
    ELSE Anchor(SubSeq(cs, 1, Len(cs) - 1), initial)

\* C2: with x the id of the most recent non-append SetFocusControl call (or
\* the initial focus id), the stored anchor is always x; every append-only
\* SetFocusControl(y, true) leaves focus_control = x_y and every
\* ResetFocusControl leaves focus_control = x, also after a reset.
C2_FocusAnchored ==
    LET x == Anchor(calls, Irp.InitialFocusID)
    IN  /\ r.initFc = x
        /\ calls # <<>> =>
            /\ (LastCall.op = "SetFocusControl" /\ LastCall.appendOnly)
                => FocusControlValue(r) = x \o <<"_">> \o LastCall.ctrl
            /\ LastCall.op = "ResetFocusControl" => FocusControlValue(r) = x

IsSet(c, appendOnly) == c.op = "SetFocusControl" /\ c.appendOnly = appendOnly

\* C3: on any constructed envelope, whatever was called on it before,
\* SetFocusControl(x, false) followed by SetFocusControl(y, true) yields
\* focus_control = x_y, and a ResetFocusControl right after yields x.
C3_SetAppendReset ==
    LET n == Len(calls)
    IN  /\ (n >= 2 /\ IsSet(calls[n - 1], FALSE) /\ IsSet(calls[n], TRUE))
            => FocusControlValue(r) = calls[n - 1].ctrl \o <<"_">> \o calls[n].ctrl
        /\ (n >= 3 /\ IsSet(calls[n - 2], FALSE) /\ IsSet(calls[n - 1], TRUE)
                /\ calls[n].op = "ResetFocusControl")
            => FocusControlValue(r) = calls[n - 2].ctrl

\* the three calls made after a reset, which leaves FocusControl pointing at
\* the envelope's own anchor
C3_Witness ==
    /\ Len(calls) = 4
    /\ calls[1].op = "ResetFocusControl"
    /\ IsSet(calls[2], FALSE) /\ calls[2].ctrl = T_x
    /\ IsSet(calls[3], TRUE) /\ calls[3].ctrl = T_y
    /\ calls[4].op = "ResetFocusControl"
    /\ FocusControlValue(r) = T_x

EndsWith(s, t) == Len(s) >= Len(t) /\ SubSeq(s, Len(s) - Len(t) + 1, Len(s)) = t

\* C5: after any sequence of AddInfo/AddWarning/AddError/AddSuccess calls on
\* an envelope constructed without a message, Messages and the log both hold
\* one entry per call, and the i-th entry of Messages is the rendering of the
\* note the i-th call added: its severity, the envelope's prefix, its text.
C5_OneMessagePerAdd ==
    /\ Len(r.Messages) = Len(calls)
    /\ Len(Notes(r.ln)) = Len(calls)
    /\ \A i \in 1..Len(calls) :
        /\ r.Messages[i] = NoteToString(Notes(r.ln)[i])
        /\ Notes(r.ln)[i].Type = SeverityOf(calls[i].op)
        /\ Notes(r.ln)[i].Prefix = Irp.Prefix
        /\ EndsWith(Notes(r.ln)[i].Message, Formatted(calls[i]))
        /\ EndsWith(r.Messages[i], Formatted(calls[i]))

\* three calls of three severities, rendered in call order
C5_Witness ==
    /\ Len(calls) = 3
    /\ calls[1].op = "AddError" /\ calls[2].op = "AddInfo" /\ calls[3].op = "AddWarning"
    /\ calls[1].fmtMsg = T_verb /\ calls[2].fmtMsg = T_m
    /\ r.Messages = <<Tag(log_Error) \o T_v, Tag(log_Info) \o T_m,
                      Tag(log_Warning) \o Formatted(calls[3])>>

\* C6: with UseOperationInMessage(true) given at construction and the
\* operation known, a message added by AddInfo, AddWarning, AddError or
\* AddSuccess is stored as " <operation>: " followed by the formatted text;
\* with the option off or the operation unknown it is stored unchanged.
C6_OperationInMessage ==
    (calls # <<>> /\ LastCall.op \in {"AddInfo", "AddWarning", "AddError", "AddSuccess"})
        => Notes(r.ln)[Len(Notes(r.ln))].Message =
            IF Irp.UseOperationInMsg /\ r.Operation # Empty
            THEN OperationTag \o Formatted(LastCall)
            ELSE Formatted(LastCall)

\* the severity the status family of a status calls for
FamilySeverity(status) ==
    IF status \in {OK, VALID, YES} THEN log_Info
    ELSE IF status \in {EXCEPTION, INVALID, NO} THEN log_Error
    ELSE log_App

\* C7: InitResult with a message adds exactly one note, whose severity is
\* decided by the status of the constructed envelope: Info for OK, VALID,
\* YES; Error for EXCEPTION, INVALID, NO, EXCEPTION being the status when
\* none is configured; a plain application message otherwise.
C7_InitialMessageByFamily ==
    Irp.Message # Empty =>
        /\ Len(Notes(r.ln)) = 1
        /\ Notes(r.ln)[1].Type = FamilySeverity(r.Status)

\* the initial message as InitResult words it
InitialText ==
    IF Irp.UseOperationInMsg /\ r.Operation # Empty
    THEN OperationTag \o Irp.Message
    ELSE Irp.Message

\* C8: InitResult with status OK and a message m yields status OK and
\* exactly one message, the Info rendering of m (behind the operation when
\* that was asked for and is known); InitResult with no option, or nil
\* options only, yields status EXCEPTION, no message and an empty log.
C8_Construction ==
    /\ (Irp.Status = OK /\ Irp.Message # Empty) =>
        /\ r.Status = OK
        /\ Notes(r.ln) = <<LogInfo(log_Info, InitialText, Irp.Prefix)>>
        /\ r.Messages = <<Irp.Prefix \o Tag(log_Info) \o InitialText>>
    /\ (\A i \in 1..Len(opts) : opts[i] = NilOption) =>
        /\ r.Status = EXCEPTION
        /\ r.Messages = <<>>
        /\ Notes(r.ln) = <<>>

\* status OK and message m, with the operation asked for and known
C8_Witness ==
    /\ opts = <<WithStatus(OK), WithMessage(T_m), UseOperationInMessage(TRUE)>>
    /\ r.Operation = T_save
    /\ r.Status = OK
    /\ r.Messages = <<Tag(log_Info) \o <<" ">> \o T_save \o <<":", " ">> \o T_m>>

\* C9: MessagesToString on one or more messages returns them joined by the
\* platform's line terminator, so that splitting what it returns on the
\* terminator gives Messages back; on no message it returns the string form
\* of the log.
C9_MessagesToStringRoundTrips ==
    (calls # <<>> /\ LastCall.op = "MessagesToString") =>
        IF Len(r.Messages) >= 1
        THEN /\ ret.v = Join(r.Messages, Newline(r.osIsWin))
             /\ Split(ret.v, Newline(r.osIsWin)) = r.Messages
        ELSE ret.v = LogToString(r.ln)

\* the mutators ResultAny[T] defines itself
Rewrapped ==
    {"AddInfo", "AddWarning", "AddError", "AddErr", "AddSuccess", "Stuff",
     "AddErrWithAlt", "AddErrorWithAlt", "Return"}

\* the envelope's method a call names, applied to res
MethodOf(c, res) ==
    CASE c.op = "AddInfo" -> AddInfo(res, c.fmtMsg, c.a)
      [] c.op = "AddWarning" -> AddWarning(res, c.fmtMsg, c.a)
      [] c.op = "AddError" -> AddError(res, c.fmtMsg, c.a)
      [] c.op = "AddErr" -> AddErr(res, c.err)
      [] c.op = "AddSuccess" -> AddSuccess(res, c.fmtMsg, c.a)
      [] c.op = "AddRawMsg" -> AddRawMsg(res, c.fmtMsg, c.a)
      [] c.op = "Stuff" -> Stuff(res, c.rs)
      [] c.op = "AddErrWithAlt" -> AddErrWithAlt(res, c.err, c.altMsg, c.a)
      [] c.op = "AddErrorWithAlt" -> AddErrorWithAlt(res, c.rs, c.altMsg, c.a)
      [] c.op = "AppendErr" -> AppendErr(res, c.rs, c.err)
      [] c.op = "AppendError" -> AppendError(res, c.rs, c.fmtMsg, c.a)
      [] c.op = "AppendInfo" -> AppendInfo(res, c.rs, c.fmtMsg, c.a)
      [] c.op = "AppendWarning" -> AppendWarning(res, c.rs, c.fmtMsg, c.a)
      [] c.op = "SetPrefix" -> SetPrefix(res, c.pfx)
      [] c.op = "RowsAffectedInfo" -> RowsAffectedInfo(res, c.rowsaff)
      [] c.op = "Return" -> Return(res, c.status)

\* C10 as stated: every envelope mutator called on a wrapper returns a
\* wrapper whose payload is the receiver's payload before the call and whose
\* envelope is the receiver's envelope after it, and leaves the receiver's
\* payload alone.
C10_EveryMutatorRewraps ==
    [][LET c == calls'[Len(calls')]
       IN  c.on = "ResultAny" =>
            /\ Data' = Data
            /\ r' = MethodOf(c, r)
            /\ ret' = [kind |-> "ResultAny", v |-> [Result |-> r', Data |-> Data]]]_vars

\* C10 as amended: each of the nine mutators the wrapper defines (AddInfo,
\* AddWarning, AddError, AddErr, AddSuccess, Stuff, AddErrWithAlt,
\* AddErrorWithAlt, Return) applies the envelope's method to the embedded
\* envelope and returns a wrapper with the receiver's payload and its
\* envelope after the call; the other mutators, reached on a wrapper through
\* the embedded envelope, mutate it likewise but return the bare envelope or
\* nothing; no call changes the receiver's payload.
C10_DefinedMutatorsRewrap ==
    [][LET c == calls'[Len(calls')]
       IN  c.on = "ResultAny" =>
            /\ Data' = Data
            /\ r' = MethodOf(c, r)
            /\ c.op \in Rewrapped =>
                ret' = [kind |-> "ResultAny", v |-> [Result |-> r', Data |-> Data]]
            /\ c.op \notin Rewrapped =>
                ret' \in {[kind |-> "Result", v |-> r'], [kind |-> "void"]}]_vars

\* a wrapper with a payload that had a result stuffed into it
C10_Witness ==
    /\ calls # <<>>
    /\ LastCall.on = "ResultAny"
    /\ LastCall.op = "Stuff"
    /\ Data = <<"d">>
    /\ ret.kind = "ResultAny"
    /\ ret.v.Data = <<"d">>
    /\ ret.v.Result = r
    /\ Len(r.Messages) >= 2

\* C11: AddErr called with a nil error returns normally and is a no-op: the
\* receiver's log, Messages and status after the call are what they were
\* before it; and AddErrWithAlt(nil, "") returns normally and changes
\* nothing.
C11_NilErrIsNoOp ==
    [][LET c == calls'[Len(calls')]
       IN  (\/ (c.op = "AddErr" /\ c.err = NilArg)
            \/ (c.op = "AddErrWithAlt" /\ c.err = NilArg /\ c.altMsg = Empty)) =>
            /\ r'.ln = r.ln
            /\ r'.Messages = r.Messages
            /\ r'.Status = r.Status
            /\ ret' = [kind |-> "Result", v |-> r]]_vars

\* the event verb InitResult leaves: the one given by WithEventVerb when it
\* is not empty, else the operation detected from the caller, which is empty
\* when none was detected
ConstructedVerb == IF Irp.EventVerb # Empty THEN Irp.EventVerb ELSE r.Operation

\* the event id the claim gives for a verb
PastTense(verb) ==
    IF verb = Empty THEN <<"u", "n", "k", "n", "o", "w", "n">>
    ELSE IF verb[Len(verb)] = "e" THEN verb \o <<"d">>
    ELSE verb \o <<"e", "d">>

PredicateOf(s, res) ==
    CASE s = OK -> Result_OK(res)
      [] s = EXCEPTION -> Error(res)
      [] s = VALID -> Valid(res)
      [] s = INVALID -> Invalid(res)
      [] s = YES -> Yes(res)
      [] s = NO -> No(res)

NamedBy(op) ==
    CASE op = "OK" -> OK
      [] op = "Error" -> EXCEPTION
      [] op = "Valid" -> VALID
      [] op = "Invalid" -> INVALID
      [] op = "Yes" -> YES
      [] op = "No" -> NO

PredicateNames == {"OK", "Error", "Valid", "Invalid", "Yes", "No"}

\* C13: for an envelope constructed with a status item or with none, after
\* any operations in which Return is given status items only, exactly one of
\* OK(), Error(), Valid(), Invalid(), Yes(), No() is true, and it is the one
\* that names the current status.
C13_ExactlyOnePredicate ==
    /\ Cardinality({s \in StatusItems : PredicateOf(s, r)}) = 1
    /\ \A s \in StatusItems : PredicateOf(s, r) <=> (r.Status = s)
    /\ (calls # <<>> /\ LastCall.op \in PredicateNames) =>
            ret = [kind |-> "bool", v |-> (r.Status = NamedBy(LastCall.op))]

\* an envelope constructed with NO and returned with YES answers Yes()
C13_Witness ==
    /\ opts = <<WithStatus(NO)>>
    /\ Len(calls) = 2
    /\ calls[1].op = "Return"
    /\ calls[1].status = YES
    /\ LastCall.op = "Yes"
    /\ ret = [kind |-> "bool", v |-> TRUE]
    /\ ~No(r)

\* C14: the status of an envelope changes only through Return.  Every
\* operation that adds a message, merges another result, sets the prefix or
\* sets or resets the focus control leaves the receiver's status as it was,
\* whatever the severity of the message or the status of the merged result;
\* and Return(s) sets the status to s and leaves the log, Messages and the
\* focus control as they were.
C14_StatusOnlyByReturn ==
    [][LET c == calls'[Len(calls')]
       IN  /\ c.op # "Return" => r'.Status = r.Status
           /\ c.op = "Return" =>
                /\ r' = [r EXCEPT !.Status = c.status]
                /\ r'.ln = r.ln
                /\ r'.Messages = r.Messages
                /\ r'.FocusControl = r.FocusControl
                /\ FocusControlValue(r') = FocusControlValue(r)
                /\ r'.initFc = r.initFc]_vars

\* an envelope with status OK that had a failed result stuffed into it and
\* was then returned as INVALID
C14_Witness ==
    /\ opts = <<WithStatus(OK)>>
    /\ Len(calls) = 2
    /\ calls[1].op = "Stuff"
    /\ calls[1].rs.Status = EXCEPTION
    /\ LastCall.op = "Return"
    /\ LastCall.status = INVALID
    /\ r.Status = INVALID
    /\ Len(r.Messages) = Len(Notes(calls[1].rs.ln))
    /\ Len(r.Messages) >= 1

=============================================================================
